---- MODULE Spec2Model ----
(***************************************************************************)
(* Elenchus RAG backend: the vector-store adapter, the document upload /   *)
(* background-processing / deletion pipeline, the RAGDocument state        *)
(* machine and the conversation context manager.                           *)
(***************************************************************************)
EXTENDS Integers, Sequences, FiniteSets, Bags, TLC

\* ------------------------------------------------------------------------
\* Bounds of the model
\* ------------------------------------------------------------------------
MaxChunks == 1        \* chunks (and so point ids) per document
MaxUploads == 2       \* upload_document calls
MaxDeletes == 1       \* delete_document calls
MaxErrors == 2        \* failures recorded on one document by direct calls
MaxAdds == 8          \* add_message calls
MaxEmitted == 2       \* chunks the chunker emits for one uploaded document
MaxPages == 2         \* page entries handed to create_chunks
MaxSentences == 3     \* sentences of one page
MaxCallers == 3       \* concurrent is_allowed calls
MaxTime == 3          \* seconds the clock runs

\* ------------------------------------------------------------------------
\* Input domains
\* ------------------------------------------------------------------------
Owners == {"A", "B"}
NoOwner == ""                       \* a missing / empty owner id
OwnerArgs == Owners \cup {NoOwner}
DocNames == {1, 2}                  \* document ids as the vector store sees them
NoDocArg == 0                       \* document_id = None
Vectors == {"v1", "v2"}             \* embeddings of stored chunks
Queries == {"v1"}                   \* query vectors: equal to or away from a stored one
DocIdLists == {<< >>, <<1>>}        \* document_ids; << >> is None or []
NoLimit == 0                        \* limit = None (or 0): falsy
Limits == {NoLimit, 1}
NoThreshold == -100                 \* score_threshold not passed to the client
Thresholds == {0, 9}                \* scores are cosine similarities times 10

VARIABLES
  points,      \* the shared Qdrant collection: point id -> [vector, user_id, document_id]
  lastOp,      \* the last adapter call: its arguments and what it did
  docs,        \* the rag_documents collection: document id -> record
  chunks,      \* the rag_chunks collection: a bag of chunk records
  blobs,       \* the objects held by the storage bucket
  file_hash_unique,  \* whether the unique index file_hash_idx exists
  uploads,     \* the upload_document calls: call id -> its position and locals
  tasks,       \* the scheduled _process_document_background tasks, by document id
  deletes,     \* the delete_document calls
  lastCall,    \* the last direct call of a RAGDocument method
  contexts,    \* ContextManager.contexts: session id -> ConversationContext
  adds,        \* number of add_message calls made so far
  processor,   \* DocumentProcessor: chunk_size and chunk_overlap
  text_content,  \* the page entries given to create_chunks
  created,     \* what create_chunks returned for them
  validation,  \* the last validate_document call: its arguments and its outcome
  rate,        \* the limit and window the middleware uses
  requests,    \* RateLimitStore.requests: key -> deque of timestamps
  lock,        \* RateLimitStore.lock is held
  clock,       \* time.time()
  callers,     \* the is_allowed calls: where each is and what it returned
  allowed_log  \* every request is_allowed has allowed: caller, key and time

storeVars == <<points, lastOp>>
dbVars == <<docs, chunks, blobs, file_hash_unique>>
pipeVars == <<docs, chunks, blobs, file_hash_unique, uploads, tasks, deletes>>
regVars == <<lastCall>>
ctxVars == <<contexts, adds>>
chunkVars == <<processor, text_content, created, validation>>
rateVars == <<rate, requests, lock, clock, callers, allowed_log>>
vars == <<points, lastOp, docs, chunks, blobs, file_hash_unique, uploads, tasks, deletes,
          lastCall, contexts, adds, processor, text_content, created, validation,
          rate, requests, lock, clock, callers, allowed_log>>

\* ------------------------------------------------------------------------
\* Vector store: QdrantManager and RAGService
\* ------------------------------------------------------------------------
SEARCH_TOP_K == 8

\* f"{document_id}_{i}"
PointId(document_id, i) == <<document_id, i>>

PointIds == {PointId(d, i) : d \in DocNames, i \in 0..(MaxChunks - 1)}

\* PointStruct(id, vector, payload): the points callers build carry the
\* document id their point id is made of
PointStructs ==
  {[id |-> PointId(d, i), vector |-> v, user_id |-> u, document_id |-> d] :
     d \in DocNames, i \in 0..(MaxChunks - 1), v \in Vectors, u \in OwnerArgs}

\* cosine similarity of the query and a stored vector, times 10
Score(q, v) == IF q = v THEN 10 ELSE 5

\* MatchValue(value=...): a scalar or, when the caller hands over a list, the list
StrValue(s) == [kind |-> "str", v |-> s]
ListValue(l) == [kind |-> "list", v |-> l]

\* FieldCondition(key, match=MatchValue(value)): payload[key] equals the value
FieldCondition(point, cond) ==
  /\ cond.value.kind = "str"
  /\ (IF cond.key = "user_id" THEN point.user_id ELSE point.document_id) = cond.value.v

\* Filter(must=conditions)
Filter(point, conditions) == \A k \in DOMAIN conditions : FieldCondition(point, conditions[k])

\* client.upsert(points=batch): overwrite by id
Upsert(coll, batch) ==
  LET ids == {batch[k].id : k \in DOMAIN batch}
      last(id) == CHOOSE k \in DOMAIN batch :
                     /\ batch[k].id = id
                     /\ \A j \in DOMAIN batch : batch[j].id = id => j <= k
  IN [id \in (DOMAIN coll) \cup ids |->
        IF id \in ids
        THEN [vector |-> batch[last(id)].vector,
              user_id |-> batch[last(id)].user_id,
              document_id |-> batch[last(id)].document_id]
        ELSE coll[id]]

\* client.search(query_vector, query_filter, limit, score_threshold): the sets of
\* ids the client may return (ties between equal scores are broken either way)
Search(coll, q, conditions, limit, threshold) ==
  LET cand == {id \in DOMAIN coll :
                 /\ Filter(coll[id], conditions)
                 /\ threshold # NoThreshold => Score(q, coll[id].vector) >= threshold}
      n == IF Cardinality(cand) < limit THEN Cardinality(cand) ELSE limit
  IN {R \in SUBSET cand :
        /\ Cardinality(R) = n
        /\ \A r \in R : \A c \in cand \ R :
              Score(q, coll[r].vector) >= Score(q, coll[c].vector)}

\* client.delete(points_selector=filter)
Delete(coll, conditions) ==
  [id \in {i \in DOMAIN coll : ~Filter(coll[i], conditions)} |-> coll[id]]

Removed(coll, coll2) ==
  {[id |-> id, user_id |-> coll[id].user_id, document_id |-> coll[id].document_id] :
     id \in (DOMAIN coll) \ (DOMAIN coll2)}

NoCall ==
  [op |-> "none", user_id |-> NoOwner, document_ids |-> << >>, document_id |-> NoDocArg,
   q |-> "v1", limit |-> NoLimit, threshold |-> NoThreshold,
   outcome |-> "ok", touched |-> FALSE, result |-> {}, removed |-> {}, noOwner |-> FALSE]

StoreInit ==
  /\ points = [id \in {} |-> NoCall]
  /\ lastOp = NoCall


\* the lists of points a caller hands to upsert_points: one point, or the
\* first points of two documents of one owner
UpsertLists ==
  {<<p>> : p \in PointStructs}
  \cup {<<pr[1], pr[2]>> :
          pr \in {x \in PointStructs \X PointStructs :
                    /\ x[1].user_id = x[2].user_id /\ x[1].vector = x[2].vector
                    /\ x[1].document_id = 1 /\ x[2].document_id = 2
                    /\ x[1].id[2] = 0 /\ x[2].id[2] = 0}}

\* the calls of upsert_points: the list and batch_size (default 100; 1 splits
\* a list of two into two batches)
UpsertInputs ==
  {<<pts, 100>> : pts \in UpsertLists} \cup {<<pts, 1>> : pts \in {l \in UpsertLists : Len(l) > 1}}

RECURSIVE upsert_batches(_, _, _, _)
\* for i in range(0, total_points, batch_size): client.upsert(points[i:i + batch_size])
upsert_batches(coll, pts, i, batch_size) ==
  IF i >= Len(pts) THEN coll
  ELSE LET hi == IF i + batch_size < Len(pts) THEN i + batch_size ELSE Len(pts)
       IN upsert_batches(Upsert(coll, SubSeq(pts, i + 1, hi)), pts, i + batch_size, batch_size)

\* QdrantManager.upsert_points(points, batch_size)
upsert_points(pts, batch_size) ==
  /\ points' = upsert_batches(points, pts, 0, batch_size)
  /\ lastOp' = [NoCall EXCEPT !.op = "upsert_points",
                              !.touched = Len(pts) > 0,
                              !.noOwner = \E k \in DOMAIN pts : pts[k].user_id = NoOwner]

\* a filter construction that forgets the owner condition
user_filter_unscoped(user_id) == << >>

\* the owner condition both search functions and delete_points_by_filter
\* start their filter with
user_filter(user_id) == <<[key |-> "user_id", value |-> StrValue(user_id)]>>

\* QdrantManager.search_similar(query_vector, user_id, document_ids, limit, score_threshold)
search_similar(q, user_id, document_ids, limit, score_threshold) ==
  LET call == [NoCall EXCEPT !.op = "search_similar", !.user_id = user_id,
                             !.document_ids = document_ids, !.q = q, !.limit = limit,
                             !.threshold = score_threshold,
                             !.noOwner = (user_id = NoOwner)]
      conditions == user_filter(user_id) \o
                    (IF Len(document_ids) > 0
                     THEN <<[key |-> "document_id", value |-> ListValue(document_ids)]>>
                     ELSE << >>)
      search_limit == IF limit # NoLimit THEN limit ELSE SEARCH_TOP_K
  IN /\ points' = points
     /\ \/ \* MatchValue(value=<list>) fails validation: the except clause re-raises
           /\ Len(document_ids) > 0
           /\ lastOp' = [call EXCEPT !.outcome = "raised"]
        \/ \E R \in Search(points, q, conditions, search_limit, score_threshold) :
              lastOp' = [call EXCEPT !.touched = TRUE, !.result = R]

\* QdrantManager.delete_points_by_filter(user_id, document_id)
delete_points_by_filter(user_id, document_id) ==
  LET conditions == user_filter(user_id) \o
                    (IF document_id # NoDocArg
                     THEN <<[key |-> "document_id", value |-> StrValue(document_id)]>>
                     ELSE << >>)
      after == Delete(points, conditions)
  IN /\ points' = after
     /\ lastOp' = [NoCall EXCEPT !.op = "delete_points_by_filter", !.user_id = user_id,
                                 !.document_id = document_id, !.touched = TRUE,
                                 !.removed = Removed(points, after),
                                 !.noOwner = (user_id = NoOwner)]

\* RAGService.store_document_chunks(document_id, chunks, user_id); vecs are the
\* embeddings generate_embeddings returns for the chunk texts
store_document_chunks(document_id, vecs, user_id) ==
  LET pts == [i \in 1..Len(vecs) |->
                [id |-> PointId(document_id, i - 1), vector |-> vecs[i],
                 user_id |-> user_id, document_id |-> document_id]]
  IN /\ points' = Upsert(points, pts)
     /\ lastOp' = [NoCall EXCEPT !.op = "store_document_chunks", !.user_id = user_id,
                                 !.document_id = document_id, !.touched = TRUE,
                                 !.noOwner = (user_id = NoOwner)]

\* RAGService.search_similar_chunks(query, user_id, document_ids, top_k); q is the
\* embedding of the query.  The function has no score_threshold parameter:
\* a caller that passes one, as the search endpoint does (api/v1/rag.py
\* 286-293), gets a TypeError before the body runs.
search_similar_chunks(q, user_id, document_ids, top_k, score_threshold) ==
  LET call == [NoCall EXCEPT !.op = "search_similar_chunks", !.user_id = user_id,
                             !.document_ids = document_ids, !.q = q, !.limit = top_k,
                             !.threshold = score_threshold,
                             !.noOwner = (user_id = NoOwner)]
      conditions == user_filter(user_id) \o
                    (IF Len(document_ids) > 0
                     THEN <<[key |-> "document_id", value |-> ListValue(document_ids)]>>
                     ELSE << >>)
      search_limit == IF top_k # NoLimit THEN top_k ELSE SEARCH_TOP_K
  IN /\ points' = points
     /\ IF score_threshold # NoThreshold
        THEN lastOp' = [call EXCEPT !.outcome = "raised"]
        ELSE \/ /\ Len(document_ids) > 0
                /\ lastOp' = [call EXCEPT !.outcome = "raised"]
             \/ \E R \in Search(points, q, conditions, search_limit, NoThreshold) :
                   lastOp' = [call EXCEPT !.touched = TRUE, !.result = R]

\* RAGService.delete_document_chunks(document_id), called on behalf of caller
delete_document_chunks(caller, document_id) ==
  LET conditions == <<[key |-> "document_id", value |-> StrValue(document_id)]>>
      after == Delete(points, conditions)
  IN /\ points' = after
     /\ lastOp' = [NoCall EXCEPT !.op = "delete_document_chunks", !.user_id = caller,
                                 !.document_id = document_id, !.touched = TRUE,
                                 !.removed = Removed(points, after)]

\* the embeddings of a document's chunks: one to MaxChunks chunks
VecLists == {[i \in 1..n |-> v] : n \in 1..MaxChunks, v \in Vectors}

StoreNext ==
  \/ \E in \in UpsertInputs :
        upsert_points(in[1], in[2]) /\ UNCHANGED <<pipeVars, regVars, ctxVars, chunkVars, rateVars>>
  \/ \E q \in Queries, u \in OwnerArgs, ds \in DocIdLists, l \in Limits, t \in Thresholds :
        search_similar(q, u, ds, l, t) /\ UNCHANGED <<pipeVars, regVars, ctxVars, chunkVars, rateVars>>
  \/ \E u \in OwnerArgs, d \in DocNames \cup {NoDocArg} :
        delete_points_by_filter(u, d) /\ UNCHANGED <<pipeVars, regVars, ctxVars, chunkVars, rateVars>>
  \/ \E d \in DocNames, vecs \in VecLists, u \in OwnerArgs :
        store_document_chunks(d, vecs, u) /\ UNCHANGED <<pipeVars, regVars, ctxVars, chunkVars, rateVars>>
  \/ \E q \in Queries, u \in OwnerArgs, ds \in DocIdLists, l \in Limits,
          t \in Thresholds \cup {NoThreshold} :
        search_similar_chunks(q, u, ds, l, t) /\ UNCHANGED <<pipeVars, regVars, ctxVars, chunkVars, rateVars>>
  \/ \E u \in Owners, d \in DocNames :
        delete_document_chunks(u, d) /\ UNCHANGED <<pipeVars, regVars, ctxVars, chunkVars, rateVars>>

\* ------------------------------------------------------------------------
\* RAGDocument: the record and its state machine
\* ------------------------------------------------------------------------
PENDING == "pending"
PROCESSING == "processing"
COMPLETED == "completed"
FAILED == "failed"

NoJob == 0       \* processing_job_id = None

\* RAGDocument(...) as upload_document builds it
new_document(user_id, file_hash, file_id, gcs_path) ==
  [user_id |-> user_id, file_hash |-> file_hash, file_id |-> file_id,
   gcs_path |-> gcs_path, status |-> PENDING, processing_job_id |-> NoJob,
   chunks_count |-> 0, embeddings_created |-> FALSE, errors |-> << >>, ai |-> FALSE]

\* RAGDocument.mark_processing_started, up to the save
mark_processing_started(doc, job_id) ==
  [doc EXCEPT !.status = PROCESSING,
              !.processing_job_id = IF job_id # NoJob THEN job_id ELSE @]

\* RAGDocument.mark_processing_completed, up to the save; the metrics handed
\* in are fresh ProcessingMetrics, whose errors_encountered is empty
mark_processing_completed(doc, chunks_count) ==
  [doc EXCEPT !.status = COMPLETED, !.chunks_count = chunks_count,
              !.embeddings_created = TRUE, !.errors = << >>]

\* a failure transition that also touches the chunk count
mark_processing_failed_counting(doc, error_message) ==
  [doc EXCEPT !.status = FAILED, !.errors = Append(@, error_message),
              !.chunks_count = @ + 1]

\* RAGDocument.mark_processing_failed, up to the save
mark_processing_failed(doc, error_message) ==
  [doc EXCEPT !.status = FAILED, !.errors = Append(@, error_message)]

\* Document.save(): write the whole in-memory record, inserting it if the
\* record is gone
save(coll, id, doc) == [x \in (DOMAIN coll) \cup {id} |-> IF x = id THEN doc ELSE coll[x]]

\* Document.delete()
delete(coll, id) == [x \in (DOMAIN coll) \ {id} |-> coll[x]]

\* ------------------------------------------------------------------------
\* Upload, background processing and deletion (RAGUploadService)
\* ------------------------------------------------------------------------
UploadIds == 1..MaxUploads
DocIds == UploadIds          \* the ObjectId of a document is named by the call that inserted it
DeleteIds == 1..MaxDeletes

TxtName == [stem |-> "a", ext |-> ".txt"]
ExeName == [stem |-> "a", ext |-> ".exe"]

\* the uploaded files: content and filename
Files == {[content |-> "x", filename |-> TxtName],
          [content |-> "y", filename |-> TxtName],
          [content |-> "x", filename |-> ExeName]}

max_size == 50 * 1024 * 1024

\* len(file_content)
Size(content) ==
  CASE content = "x" -> 5 [] content = "y" -> 7
    [] content = "full" -> max_size [] content = "big" -> max_size + 1 [] OTHER -> 0

\* DocumentProcessor.generate_document_hash: sha256 of the bytes
generate_document_hash(content) ==
  CASE content = "x" -> "2d71" [] content = "y" -> "a1fc" [] OTHER -> "e3b0"

supported_extensions == {".pdf", ".doc", ".docx", ".txt", ".md"}

\* filename is None
NoFilename == [missing |-> TRUE]

\* what str.lower makes of an extension
lower(ext) == CASE ext = ".TXT" -> ".txt" [] ext = ".PDF" -> ".pdf" [] OTHER -> ext

\* not filename or len(filename.strip()) == 0
blank(filename) ==
  filename = NoFilename \/ (filename.stem \in {"", " "} /\ filename.ext = "")

\* DocumentProcessor.validate_document: the dict it returns, or raised when
\* filename.lower() (line 253) is called on None
validate_document(content, filename) ==
  LET errors ==
        (IF Size(content) > max_size THEN <<"File size exceeds maximum allowed size">> ELSE << >>)
        \o (IF Size(content) = 0 THEN <<"File is empty">> ELSE << >>)
        \o (IF blank(filename) THEN <<"Filename is required">> ELSE << >>)
  IN IF filename = NoFilename
     THEN [raised |-> TRUE, valid |-> FALSE, errors |-> << >>]
     ELSE LET all == errors \o (IF lower(filename.ext) \notin supported_extensions
                                THEN <<"Unsupported file type">> ELSE << >>)
          IN [raised |-> FALSE, valid |-> Len(all) = 0, errors |-> all]

\* DocumentProcessor.process_document_async: what extraction and chunking
\* make of the content: "x" splits into MaxEmitted chunks, "y" cannot be read
process_document_async(content, filename) ==
  IF ~validate_document(content, filename).valid
  THEN [success |-> FALSE, error |-> "Validation failed", chunks |-> 0]
  ELSE IF content = "x" THEN [success |-> TRUE, error |-> "", chunks |-> MaxEmitted]
  ELSE [success |-> FALSE, error |-> "cannot extract", chunks |-> 0]

\* a duplicate lookup that never finds the earlier registration
find_duplicate_none(file_hash, user_id) == {}

\* RAGDocument.find_one(file_hash == h, user_id == u): the documents it may return
find_duplicate(file_hash, user_id) ==
  {d \in DOMAIN docs : docs[d].file_hash = file_hash /\ docs[d].user_id = user_id}

NoRet == 0
IdleCall == [pc |-> "idle", user_id |-> NoOwner, file |-> [content |-> "", filename |-> TxtName],
             background_tasks |-> FALSE, gcs_path |-> FALSE, ret |-> NoRet,
             outcome |-> "none", overlaps |-> {}]

InFlight == {c \in UploadIds : uploads[c].pc \notin {"idle", "done"}}

\* upload_document, lines 71-112: read the file, hash it, look for a duplicate,
\* validate
upload_document_lookup(c, user_id, file, background_tasks) ==
  LET file_hash == generate_document_hash(file.content)
      call == [uploads[c] EXCEPT !.user_id = user_id, !.file = file,
                                 !.background_tasks = background_tasks,
                                 !.overlaps = InFlight]
  IN /\ uploads[c].pc = "idle"
     /\ \A b \in UploadIds : b < c => uploads[b].pc # "idle"
     /\ IF find_duplicate(file_hash, user_id) # {}
        THEN \E existing_doc \in find_duplicate(file_hash, user_id) :
               uploads' = [uploads EXCEPT ![c] = [call EXCEPT !.pc = "done",
                                                             !.ret = existing_doc,
                                                             !.outcome = "existing"]]
        ELSE IF ~validate_document(file.content, file.filename).valid
        THEN uploads' = [uploads EXCEPT ![c] = [call EXCEPT !.pc = "done",
                                                            !.outcome = "raised"]]
        ELSE uploads' = [uploads EXCEPT ![c] = [call EXCEPT !.pc = "blob"]]
     /\ UNCHANGED <<dbVars, tasks, deletes, storeVars, regVars, ctxVars, chunkVars, rateVars>>

BlobKey(user_id, file_id) == [user_id |-> user_id, file_id |-> file_id]

\* upload_document, lines 114-136: store the bytes in the bucket when storage
\* is available; a failed upload is logged and the call goes on
upload_document_blob(c) ==
  /\ uploads[c].pc = "blob"
  /\ \/ /\ blobs' = blobs \cup {BlobKey(uploads[c].user_id, c)}
        /\ uploads' = [uploads EXCEPT ![c].pc = "insert", ![c].gcs_path = TRUE]
     \/ /\ blobs' = blobs
        /\ uploads' = [uploads EXCEPT ![c].pc = "insert", ![c].gcs_path = FALSE]
  /\ UNCHANGED <<docs, chunks, file_hash_unique, tasks, deletes, storeVars, regVars, ctxVars, chunkVars, rateVars>>

NewTask == [pc |-> "find", document |-> new_document(NoOwner, "", 0, FALSE),
            user_id |-> NoOwner, file |-> [content |-> "", filename |-> TxtName],
            ai_metadata |-> FALSE, idx |-> 0, result |-> [success |-> FALSE, error |-> "", chunks |-> 0],
            error |-> ""]

\* upload_document, lines 138-169: insert the record, schedule the background
\* task, return the record.  With file_hash_idx in place the insert of a second
\* record with the same hash raises DuplicateKeyError.
upload_document_insert(c) ==
  LET call == uploads[c]
      file_hash == generate_document_hash(call.file.content)
  IN /\ call.pc = "insert"
     /\ IF file_hash_unique /\ \E d \in DOMAIN docs : docs[d].file_hash = file_hash
        THEN /\ uploads' = [uploads EXCEPT ![c].pc = "done", ![c].outcome = "raised"]
             /\ UNCHANGED <<docs, tasks>>
        ELSE /\ docs' = save(docs, c, new_document(call.user_id, file_hash, c, call.gcs_path))
             /\ tasks' = IF call.background_tasks
                         THEN save(tasks, c, [NewTask EXCEPT !.user_id = call.user_id,
                                                             !.file = call.file])
                         ELSE tasks
             /\ uploads' = [uploads EXCEPT ![c].pc = "done", ![c].ret = c,
                                           ![c].outcome = "inserted"]
     /\ UNCHANGED <<chunks, blobs, file_hash_unique, deletes, storeVars, regVars, ctxVars, chunkVars, rateVars>>

\* scripts/create_indexes.py, create_rag_document_indexes: file_hash_idx is
\* declared unique.  create_index builds it unless the server refuses (two
\* records already share a hash, or the index exists under other options);
\* the refusal is caught and reported.
create_rag_document_indexes ==
  /\ ~file_hash_unique
  /\ \/ /\ \A d, e \in DOMAIN docs : docs[d].file_hash = docs[e].file_hash => d = e
        /\ file_hash_unique' = TRUE
     \/ file_hash_unique' = FALSE
  /\ UNCHANGED <<docs, chunks, blobs, uploads, tasks, deletes, storeVars, regVars, ctxVars, chunkVars, rateVars>>

\* f"job_{uuid.uuid4()}": a fresh token, named by the task that draws it
JobToken(d) == d

\* the exception texts str(e) of a failing collaborator call
ExceptionTexts == {"connection lost"}

\* _process_document_background, lines 214-227: fetch the record
bg_find(d) ==
  /\ d \in DOMAIN tasks /\ tasks[d].pc = "find"
  /\ tasks' = IF d \in DOMAIN docs
              THEN [tasks EXCEPT ![d].pc = "start", ![d].document = docs[d]]
              ELSE [tasks EXCEPT ![d].pc = "done"]
  /\ UNCHANGED <<dbVars, uploads, deletes, storeVars, regVars, ctxVars, chunkVars, rateVars>>

\* lines 229-231: mark_processing_started with a fresh job token, and save
bg_start(d) ==
  /\ d \in DOMAIN tasks /\ tasks[d].pc = "start"
  /\ LET document == mark_processing_started(tasks[d].document, JobToken(d))
     IN /\ docs' = save(docs, d, document)
        /\ tasks' = [tasks EXCEPT ![d].pc = "extract", ![d].document = document]
  /\ UNCHANGED <<chunks, blobs, file_hash_unique, uploads, deletes, storeVars, regVars, ctxVars, chunkVars, rateVars>>

\* lines 233-284: content extraction and AI metadata (which may or may not
\* be produced), then process_document_async; none of this touches the
\* database
bg_extract_process(d) ==
  /\ d \in DOMAIN tasks /\ tasks[d].pc = "extract"
  /\ \E ai_metadata \in BOOLEAN :
       LET result == process_document_async(tasks[d].file.content, tasks[d].file.filename)
       IN tasks' = [tasks EXCEPT ![d].ai_metadata = ai_metadata,
                                 ![d].result = result,
                                 ![d].pc = IF ~result.success THEN "fail"
                                           ELSE IF result.chunks > 0 THEN "chunks"
                                           ELSE IF ai_metadata THEN "ai" ELSE "complete"]
  /\ UNCHANGED <<dbVars, uploads, deletes, storeVars, regVars, ctxVars, chunkVars, rateVars>>

\* lines 280-284: processing reported a failure: mark_processing_failed, save
bg_mark_failed(d) ==
  /\ d \in DOMAIN tasks /\ tasks[d].pc = "fail"
  /\ LET document == mark_processing_failed(tasks[d].document, tasks[d].result.error)
     IN /\ docs' = save(docs, d, document)
        /\ tasks' = [tasks EXCEPT ![d].pc = "done", ![d].document = document]
  /\ UNCHANGED <<chunks, blobs, file_hash_unique, uploads, deletes, storeVars, regVars, ctxVars, chunkVars, rateVars>>

\* processing_result['chunks'][idx]['text']: the idx-th chunk the chunker
\* emitted for the content
chunk_data(content, idx) == <<content, idx>>

NoPoint == <<0, -1>>     \* qdrant_point_id = None

\* RAGChunk(document_id, user_id, chunk_index, text, ...)
new_chunk(document_id, user_id, chunk_index, text) ==
  [document_id |-> document_id, user_id |-> user_id, chunk_index |-> chunk_index,
   text |-> text, qdrant_point_id |-> NoPoint]

\* a loop that numbers every chunk record 0
bg_insert_chunk_unindexed(d) ==
  /\ d \in DOMAIN tasks /\ tasks[d].pc = "chunks"
  /\ chunks' = chunks (+) SetToBag({new_chunk(d, tasks[d].user_id, 0,
                                              chunk_data(tasks[d].file.content, tasks[d].idx))})
  /\ tasks' = [tasks EXCEPT ![d].idx = @ + 1,
                            ![d].pc = IF tasks[d].idx + 1 < tasks[d].result.chunks THEN "chunks"
                                      ELSE IF tasks[d].ai_metadata THEN "ai" ELSE "complete"]
  /\ UNCHANGED <<docs, blobs, file_hash_unique, uploads, deletes, storeVars, regVars, ctxVars, chunkVars, rateVars>>

\* lines 286-308: one turn of the loop: build chunk idx and insert it
bg_insert_chunk(d) ==
  /\ d \in DOMAIN tasks /\ tasks[d].pc = "chunks"
  /\ chunks' = chunks (+) SetToBag({new_chunk(d, tasks[d].user_id, tasks[d].idx,
                                              chunk_data(tasks[d].file.content, tasks[d].idx))})
  /\ tasks' = [tasks EXCEPT ![d].idx = @ + 1,
                            ![d].pc = IF tasks[d].idx + 1 < tasks[d].result.chunks THEN "chunks"
                                      ELSE IF tasks[d].ai_metadata THEN "ai" ELSE "complete"]
  /\ UNCHANGED <<docs, blobs, file_hash_unique, uploads, deletes, storeVars, regVars, ctxVars, chunkVars, rateVars>>

\* lines 310-315: copy the AI metadata into the record and save it
bg_save_ai_metadata(d) ==
  /\ d \in DOMAIN tasks /\ tasks[d].pc = "ai"
  /\ LET document == [tasks[d].document EXCEPT !.ai = TRUE]
     IN /\ docs' = save(docs, d, document)
        /\ tasks' = [tasks EXCEPT ![d].pc = "complete", ![d].document = document]
  /\ UNCHANGED <<chunks, blobs, file_hash_unique, uploads, deletes, storeVars, regVars, ctxVars, chunkVars, rateVars>>

\* a completion after which the run still falls into its except handler
bg_complete_unfinished(d) ==
  /\ d \in DOMAIN tasks /\ tasks[d].pc = "complete"
  /\ LET document == mark_processing_completed(tasks[d].document, tasks[d].idx)
     IN /\ docs' = save(docs, d, document)
        /\ tasks' = [tasks EXCEPT ![d].pc = "except", ![d].document = document]
  /\ UNCHANGED <<chunks, blobs, file_hash_unique, uploads, deletes, storeVars, regVars, ctxVars, chunkVars, rateVars>>

\* lines 317-326: mark_processing_completed(chunks_created, metrics), save
bg_complete(d) ==
  /\ d \in DOMAIN tasks /\ tasks[d].pc = "complete"
  /\ LET document == mark_processing_completed(tasks[d].document, tasks[d].idx)
     IN /\ docs' = save(docs, d, document)
        /\ tasks' = [tasks EXCEPT ![d].pc = "done", ![d].document = document]
  /\ UNCHANGED <<chunks, blobs, file_hash_unique, uploads, deletes, storeVars, regVars, ctxVars, chunkVars, rateVars>>

\* lines 328-331: an awaited call of the try block raises instead of returning
bg_raise(d) ==
  /\ d \in DOMAIN tasks
  /\ tasks[d].pc \in {"find", "start", "extract", "fail", "chunks", "ai", "complete"}
  /\ \E e \in ExceptionTexts : tasks' = [tasks EXCEPT ![d].pc = "except", ![d].error = e]
  /\ UNCHANGED <<dbVars, uploads, deletes, storeVars, regVars, ctxVars, chunkVars, rateVars>>

\* lines 332-341: the handler fetches the record again
bg_except_find(d) ==
  /\ d \in DOMAIN tasks /\ tasks[d].pc = "except"
  /\ tasks' = IF d \in DOMAIN docs
              THEN [tasks EXCEPT ![d].pc = "except_fail", ![d].document = docs[d]]
              ELSE [tasks EXCEPT ![d].pc = "done"]
  /\ UNCHANGED <<dbVars, uploads, deletes, storeVars, regVars, ctxVars, chunkVars, rateVars>>

\* line 342: mark_processing_failed(str(e)) on the fetched record, save
bg_except_fail(d) ==
  /\ d \in DOMAIN tasks /\ tasks[d].pc = "except_fail"
  /\ LET document == mark_processing_failed(tasks[d].document, tasks[d].error)
     IN /\ docs' = save(docs, d, document)
        /\ tasks' = [tasks EXCEPT ![d].pc = "done", ![d].document = document]
  /\ UNCHANGED <<chunks, blobs, file_hash_unique, uploads, deletes, storeVars, regVars, ctxVars, chunkVars, rateVars>>

\* lines 343-344: the handler's own calls raise; the error is logged
bg_except_raise(d) ==
  /\ d \in DOMAIN tasks /\ tasks[d].pc \in {"except", "except_fail"}
  /\ tasks' = [tasks EXCEPT ![d].pc = "done"]
  /\ UNCHANGED <<dbVars, uploads, deletes, storeVars, regVars, ctxVars, chunkVars, rateVars>>

NotSet == "None"      \* getattr(document, 'processing_error', None): no such field

\* get_document_status(document_id, user_id); progress in tenths
get_document_status(document_id, user_id) ==
  IF document_id \notin DOMAIN docs \/ docs[document_id].user_id # user_id
  THEN [found |-> FALSE, error |-> "Document not found", status |-> NotSet, progress |-> 0,
        chunks_count |-> 0, embeddings_created |-> FALSE, processing_error |-> NotSet]
  ELSE LET document == docs[document_id]
       IN [found |-> TRUE, error |-> NotSet, status |-> document.status,
           progress |-> CASE document.status = PROCESSING -> 5
                          [] document.status = COMPLETED -> 10
                          [] OTHER -> 0,
           chunks_count |-> document.chunks_count,
           embeddings_created |-> document.embeddings_created,
           processing_error |-> NotSet]

IdleDelete == [pc |-> "idle", document_id |-> 0, user_id |-> NoOwner,
               document |-> new_document(NoOwner, "", 0, FALSE),
               deleted_chunks |-> 0, had |-> 0, success |-> FALSE, error |-> ""]

\* the chunk records RAGChunk.find(document_id == d, user_id == u) selects
chunk_query(document_id, user_id) ==
  {ch \in BagToSet(chunks) : ch.document_id = document_id /\ ch.user_id = user_id}

BagCount(bag, elems) == BagCardinality([e \in elems |-> bag[e]])

\* a lookup by document id alone
delete_document_find_any_owner(k, document_id, user_id) ==
  /\ deletes[k].pc = "idle"
  /\ \A j \in DeleteIds : j < k => deletes[j].pc # "idle"
  /\ deletes' =
       IF document_id \in DOMAIN docs
       THEN [deletes EXCEPT ![k] = [@ EXCEPT !.pc = "chunks", !.document_id = document_id,
                                             !.user_id = user_id,
                                             !.document = docs[document_id]]]
       ELSE [deletes EXCEPT ![k] = [@ EXCEPT !.pc = "done", !.document_id = document_id,
                                             !.user_id = user_id,
                                             !.error = "Document not found"]]
  /\ UNCHANGED <<dbVars, uploads, tasks, storeVars, regVars, ctxVars, chunkVars, rateVars>>

\* delete_document, lines 460-479: find the record of this owner
delete_document_find(k, document_id, user_id) ==
  /\ deletes[k].pc = "idle"
  /\ \A j \in DeleteIds : j < k => deletes[j].pc # "idle"
  /\ deletes' =
       IF document_id \in DOMAIN docs /\ docs[document_id].user_id = user_id
       THEN [deletes EXCEPT ![k] = [@ EXCEPT !.pc = "chunks", !.document_id = document_id,
                                             !.user_id = user_id,
                                             !.document = docs[document_id]]]
       ELSE [deletes EXCEPT ![k] = [@ EXCEPT !.pc = "done", !.document_id = document_id,
                                             !.user_id = user_id,
                                             !.error = "Document not found"]]
  /\ UNCHANGED <<dbVars, uploads, tasks, storeVars, regVars, ctxVars, chunkVars, rateVars>>

\* lines 481-487: delete the chunk records of the document and owner
delete_document_chunks_step(k) ==
  LET call == deletes[k]
      hit == chunk_query(call.document_id, call.user_id)
      of_document == {ch \in BagToSet(chunks) : ch.document_id = call.document_id}
  IN /\ call.pc = "chunks"
     /\ chunks' = [ch \in BagToSet(chunks) \ hit |-> chunks[ch]]
     /\ deletes' = [deletes EXCEPT ![k].deleted_chunks = BagCount(chunks, hit),
                                   ![k].had = BagCount(chunks, of_document),
                                   ![k].pc = IF call.document.gcs_path THEN "gcs" ELSE "doc"]
     /\ UNCHANGED <<docs, blobs, file_hash_unique, uploads, tasks, storeVars, regVars, ctxVars, chunkVars, rateVars>>

\* lines 489-506: delete the stored file; a failure is logged
delete_document_gcs(k) ==
  LET call == deletes[k]
  IN /\ call.pc = "gcs"
     /\ \/ blobs' = blobs \ {BlobKey(call.user_id, call.document.file_id)}
        \/ blobs' = blobs
     /\ deletes' = [deletes EXCEPT ![k].pc = "doc"]
     /\ UNCHANGED <<docs, chunks, file_hash_unique, uploads, tasks, storeVars, regVars, ctxVars, chunkVars, rateVars>>

\* lines 508-515: delete the record and report
delete_document_record(k) ==
  LET call == deletes[k]
  IN /\ call.pc = "doc"
     /\ docs' = delete(docs, call.document_id)
     /\ deletes' = [deletes EXCEPT ![k].pc = "done", ![k].success = TRUE]
     /\ UNCHANGED <<chunks, blobs, file_hash_unique, uploads, tasks, storeVars, regVars, ctxVars, chunkVars, rateVars>>

\* lines 517-522: an awaited database call of delete_document raises; the
\* call reports the failure and undoes nothing
delete_document_raise(k) ==
  /\ deletes[k].pc \in {"chunks", "doc"}
  /\ \E e \in ExceptionTexts :
       deletes' = [deletes EXCEPT ![k].pc = "done", ![k].success = FALSE, ![k].error = e]
  /\ UNCHANGED <<dbVars, uploads, tasks, storeVars, regVars, ctxVars, chunkVars, rateVars>>

\* rag_worker.process_document_task(document_id, user_id, ...) for a registered
\* document: embed its chunks and store them in the collection
process_document_task(d) ==
  /\ d \in DOMAIN docs
  /\ PointId(d, 0) \notin DOMAIN points
  /\ store_document_chunks(d, [i \in 1..MaxChunks |-> "v1"], docs[d].user_id)
  /\ UNCHANGED <<pipeVars, regVars, ctxVars, chunkVars, rateVars>>

FirstUpload == 1

\* ------------------------------------------------------------------------
\* The RAGDocument methods called directly on a stored record
\* ------------------------------------------------------------------------
JobTokens == {1, 2}
ErrorTexts == {"cannot extract"}
MarkOps == {"mark_processing_started", "mark_processing_completed", "mark_processing_failed"}

NoRegCall == [op |-> "none", document_id |-> 0, before |-> new_document(NoOwner, "", 0, FALSE),
              job_id |-> NoJob, outcome |-> "ok"]

\* a record as upload_document inserts it (lines 138-156)
reg_insert(d, user_id) ==
  /\ d \notin DOMAIN docs
  /\ docs' = save(docs, d, new_document(user_id, generate_document_hash("x"), d, FALSE))
  /\ lastCall' = [NoRegCall EXCEPT !.op = "insert", !.document_id = d]
  /\ UNCHANGED <<chunks, blobs, file_hash_unique, uploads, tasks, deletes, storeVars, ctxVars, chunkVars, rateVars>>

\* document.mark_processing_started(job_id)
reg_mark_processing_started(d, job_id) ==
  /\ d \in DOMAIN docs
  /\ docs' = save(docs, d, mark_processing_started(docs[d], job_id))
  /\ lastCall' = [NoRegCall EXCEPT !.op = "mark_processing_started", !.document_id = d,
                                   !.before = docs[d], !.job_id = job_id]
  /\ UNCHANGED <<chunks, blobs, file_hash_unique, uploads, tasks, deletes, storeVars, ctxVars, chunkVars, rateVars>>

\* document.mark_processing_completed(chunks_count, metrics)
reg_mark_processing_completed(d, chunks_count) ==
  /\ d \in DOMAIN docs
  /\ docs' = save(docs, d, mark_processing_completed(docs[d], chunks_count))
  /\ lastCall' = [NoRegCall EXCEPT !.op = "mark_processing_completed", !.document_id = d,
                                   !.before = docs[d]]
  /\ UNCHANGED <<chunks, blobs, file_hash_unique, uploads, tasks, deletes, storeVars, ctxVars, chunkVars, rateVars>>

\* document.mark_processing_failed(error_message)
reg_mark_processing_failed(d, error_message) ==
  /\ d \in DOMAIN docs
  /\ Len(docs[d].errors) < MaxErrors
  /\ docs' = save(docs, d, mark_processing_failed(docs[d], error_message))
  /\ lastCall' = [NoRegCall EXCEPT !.op = "mark_processing_failed", !.document_id = d,
                                   !.before = docs[d]]
  /\ UNCHANGED <<chunks, blobs, file_hash_unique, uploads, tasks, deletes, storeVars, ctxVars, chunkVars, rateVars>>

\* document.delete()
reg_delete(d) ==
  /\ d \in DOMAIN docs
  /\ docs' = delete(docs, d)
  /\ lastCall' = [NoRegCall EXCEPT !.op = "delete", !.document_id = d, !.before = docs[d]]
  /\ UNCHANGED <<chunks, blobs, file_hash_unique, uploads, tasks, deletes, storeVars, ctxVars, chunkVars, rateVars>>

RegInit == lastCall = NoRegCall

RegNext ==
  \/ \E u \in Owners : reg_insert(FirstUpload, u)
  \/ \E j \in JobTokens \cup {NoJob} : reg_mark_processing_started(FirstUpload, j)
  \/ \E n \in 0..MaxChunks : reg_mark_processing_completed(FirstUpload, n)
  \/ \E e \in ErrorTexts : reg_mark_processing_failed(FirstUpload, e)
  \/ reg_delete(FirstUpload)

\* ------------------------------------------------------------------------
\* ContextManager (context_manager.py).  A message's content is represented
\* by its length in characters, which is all the manager ever inspects.
\* ------------------------------------------------------------------------
USER == "user"
ASSISTANT == "assistant"
SYSTEM == "system"
Roles == {USER, ASSISTANT, SYSTEM}
Sessions == {"s1"}
ContentLens == {40, 27000, 40000}
NoPrompt == 0                       \* system_prompt=None
PromptLens == {NoPrompt, 400}

max_context_tokens == 8000
chars_per_token == 4
compress_buffer == 1000
recent_count == 6
aggressive_count == 2
topic_chars == 50
topic_limit == 3
default_system_prompt_len == 480
summary_wrapper_len == 33           \* "[Previous conversation summary: " and "]"
discussed_prefix_len == 11          \* "Discussed: "
ellipsis_len == 3                   \* "..."
separator_len == 2                  \* ", "
generic_summary_len == 29           \* "Previous conversation context"

Max(a, b) == IF a >= b THEN a ELSE b
Min(a, b) == IF a <= b THEN a ELSE b

ModelMessage(role, len, kind, n) == [role |-> role, len |-> len, kind |-> kind, n |-> n]

_estimate_tokens(len) == Max(1, len \div chars_per_token)

RECURSIVE SumTokens(_)
SumTokens(messages) ==
  IF messages = << >> THEN 0
  ELSE _estimate_tokens(Head(messages).len) + SumTokens(Tail(messages))

\* messages[-k:]
LastOf(messages, k) == SubSeq(messages, Max(1, Len(messages) - k + 1), Len(messages))
\* messages[from:-k]
Between(messages, from, k) ==
  IF from + 1 > Len(messages) - k THEN << >> ELSE SubSeq(messages, from + 1, Len(messages) - k)

RECURSIVE SumLens(_)
SumLens(lens) == IF lens = << >> THEN 0 ELSE Head(lens) + SumLens(Tail(lens))

\* a summariser that never has anything to say
_create_conversation_summary_silent(messages) == 0

\* the length of the summary string; 0 is the empty string
_create_conversation_summary(messages) ==
  IF messages = << >> THEN 0
  ELSE LET users == SelectSeq(messages, LAMBDA m : m.role = USER)
           topics == [i \in 1..Len(users) |->
                        IF users[i].len > topic_chars THEN topic_chars + ellipsis_len
                        ELSE users[i].len]
           shown == SubSeq(topics, 1, Min(topic_limit, Len(topics)))
       IN IF Len(topics) > 0
          THEN discussed_prefix_len + SumLens(shown) + separator_len * (Len(shown) - 1)
          ELSE generic_summary_len

create_context(system_prompt) ==
  LET prompt == IF system_prompt = NoPrompt THEN default_system_prompt_len ELSE system_prompt
  IN [messages |-> <<ModelMessage(SYSTEM, prompt, "prompt", 0)>>,
      total_tokens |-> _estimate_tokens(prompt),
      max_tokens |-> max_context_tokens]

\* a compression that drops messages and keeps the old token count
_compress_context_stale(context, needed_tokens) ==
  [context EXCEPT !.messages = LastOf(@, aggressive_count)]

_compress_context(context, needed_tokens) ==
  LET target_tokens == context.max_tokens - needed_tokens - compress_buffer
      msgs == context.messages
      has_system == Len(msgs) > 0 /\ msgs[1].role = SYSTEM
      system_part == IF has_system THEN <<msgs[1]>> ELSE << >>
      recent_messages == LastOf(msgs, recent_count)
      protected_tokens == SumTokens(system_part) + SumTokens(recent_messages)
      elided == Between(msgs, IF has_system THEN 1 ELSE 0, recent_count)
      summary == _create_conversation_summary(elided)
      summary_part ==
        IF Len(msgs) > Len(recent_messages) + Len(system_part) /\ summary > 0
        THEN <<ModelMessage(SYSTEM, summary_wrapper_len + summary, "summary", 0)>>
        ELSE << >>
      new_messages ==
        IF protected_tokens <= target_tokens
        THEN system_part \o summary_part \o recent_messages
        ELSE system_part \o LastOf(msgs, aggressive_count)
  IN [context EXCEPT !.messages = new_messages, !.total_tokens = SumTokens(new_messages)]

get_context_for_llm(session_id, include_system) ==
  IF session_id \notin DOMAIN contexts THEN << >>
  ELSE IF include_system THEN contexts[session_id].messages
  ELSE SelectSeq(contexts[session_id].messages, LAMBDA m : m.role # SYSTEM)

create_session(session_id, system_prompt) ==
  /\ contexts' = [sid \in DOMAIN contexts \cup {session_id} |->
                    IF sid = session_id THEN create_context(system_prompt) ELSE contexts[sid]]
  /\ UNCHANGED <<adds, pipeVars, storeVars, regVars, chunkVars, rateVars>>

add_message(session_id, len, role) ==
  /\ adds < MaxAdds
  /\ LET context == IF session_id \in DOMAIN contexts THEN contexts[session_id]
                    ELSE create_context(NoPrompt)
         message_tokens == _estimate_tokens(len)
         fitted == IF context.total_tokens + message_tokens > context.max_tokens
                   THEN _compress_context(context, message_tokens)
                   ELSE context
         added == [fitted EXCEPT
                     !.messages = Append(@, ModelMessage(role, len, "added", adds + 1)),
                     !.total_tokens = @ + message_tokens]
     IN contexts' = [sid \in DOMAIN contexts \cup {session_id} |->
                       IF sid = session_id THEN added ELSE contexts[sid]]
  /\ adds' = adds + 1
  /\ UNCHANGED <<pipeVars, storeVars, regVars, chunkVars, rateVars>>

CtxInit == contexts = [s \in {} |-> create_context(NoPrompt)] /\ adds = 0

CtxNext ==
  \/ \E sid \in Sessions, p \in PromptLens : create_session(sid, p)
  \/ \E sid \in Sessions, len \in ContentLens, role \in Roles : add_message(sid, len, role)

\* ------------------------------------------------------------------------
\* DocumentProcessor.create_chunks (document_processor.py).  A page entry is
\* its page number and the sentences re.split makes of its cleaned text; a
\* sentence is its place in the input and its length in characters.
\* ------------------------------------------------------------------------
MAX_CHUNK_SIZE == 800
CHUNK_OVERLAP == 100
overlap_count == 2                  \* min(2, len(current_chunk_sentences))
SentenceLens == {50, 400, 900}
OverlapSettings == {0, CHUNK_OVERLAP}

\* the sentences of page entry e, whose lengths are lens
Sentences(e, lens) == [k \in 1..Len(lens) |-> [entry |-> e, k |-> k, len |-> lens[k]]]

LenLists == UNION {[1..n -> SentenceLens] : n \in 0..MaxSentences}

\* an input: its page entries numbered in order, entry e with the sentence
\* lengths ls[e]; an entry without sentences is a page whose cleaned text is empty
TextContent(ls) == [e \in DOMAIN ls |-> [page |-> e, sentences |-> Sentences(e, ls[e])]]

\* len(" ".join(sentences))
JoinLen(sentences) ==
  IF sentences = << >> THEN 0
  ELSE SumLens([k \in 1..Len(sentences) |-> sentences[k].len]) + (Len(sentences) - 1)

\* the dict appended to chunks; carried is the number of overlap sentences the
\* chunk began with
chunk_dict(page, cur) ==
  [page |-> page, sentences |-> cur.sentences, sentence_count |-> Len(cur.sentences),
   char_count |-> cur.len, carried |-> cur.carried]

EmptyChunk == [len |-> 0, sentences |-> << >>, carried |-> 0]

\* lines 185-192: what the next chunk starts with
start_with_overlap(chunk_overlap, cur) ==
  IF chunk_overlap > 0 /\ Len(cur.sentences) > 0
  THEN LET overlap_sentences == LastOf(cur.sentences, Min(overlap_count, Len(cur.sentences)))
       IN [len |-> JoinLen(overlap_sentences), sentences |-> overlap_sentences,
           carried |-> Len(overlap_sentences)]
  ELSE EmptyChunk

\* lines 194-199: add the sentence to the current chunk
add_sentence(cur, sentence) ==
  [cur EXCEPT !.len = IF cur.len > 0 THEN cur.len + 1 + sentence.len ELSE sentence.len,
              !.sentences = Append(@, sentence)]

\* a chunker that forgets what is left when the page ends
final_chunk_dropped(page, cur, out) == out

\* lines 201-211: the remaining content becomes the last chunk of the page
final_chunk(page, cur, out) ==
  IF cur.len > 0 THEN Append(out, chunk_dict(page, cur)) ELSE out

\* lines 170-211: the loop over the sentences of one page entry
RECURSIVE chunk_sentences(_, _, _, _, _, _)
chunk_sentences(cfg, page, sentences, i, cur, out) ==
  IF i > Len(sentences) THEN final_chunk(page, cur, out)
  ELSE LET sentence == sentences[i]
           full == cur.len + 1 + sentence.len > cfg.chunk_size /\ cur.len > 0
           out2 == IF full THEN Append(out, chunk_dict(page, cur)) ELSE out
           cur2 == IF full THEN start_with_overlap(cfg.chunk_overlap, cur) ELSE cur
       IN chunk_sentences(cfg, page, sentences, i + 1, add_sentence(cur2, sentence), out2)

\* lines 157-162: the loop over the page entries
RECURSIVE chunk_pages(_, _, _, _)
chunk_pages(cfg, pages, e, out) ==
  IF e > Len(pages) THEN out
  ELSE IF pages[e].sentences = << >> THEN chunk_pages(cfg, pages, e + 1, out)
  ELSE chunk_pages(cfg, pages, e + 1,
                   chunk_sentences(cfg, pages[e].page, pages[e].sentences, 1, EmptyChunk, out))

NotCalled == <<[page |-> 0]>>

\* DocumentProcessor.create_chunks(text_content)
create_chunks ==
  /\ created = NotCalled
  /\ created' = chunk_pages(processor, text_content, 1, << >>)
  /\ UNCHANGED <<processor, text_content, validation, pipeVars, storeVars, regVars, ctxVars, rateVars>>

\* the inputs of validate_document
Contents == {"", "x", "y", "full", "big"}
Stems == {"", " ", "a", " a "}
Extensions == {"", ".txt", ".TXT", ".pdf", ".PDF", ".md", ".doc", ".docx", ".exe"}
Filenames == {NoFilename} \cup [stem : Stems, ext : Extensions]

NotValidated == [called |-> FALSE]

\* a call of DocumentProcessor.validate_document(file_content, filename)
validate_document_call(content, filename) ==
  /\ validation' = [called |-> TRUE, content |-> content, filename |-> filename,
                    result |-> validate_document(content, filename)]
  /\ UNCHANGED <<processor, text_content, created, pipeVars, storeVars, regVars, ctxVars, rateVars>>

ValidateNext == \E content \in Contents, filename \in Filenames : validate_document_call(content, filename)

\* the processor as the service builds it, with nothing to chunk
ChunkerIdle ==
  /\ processor = [chunk_size |-> MAX_CHUNK_SIZE, chunk_overlap |-> CHUNK_OVERLAP]
  /\ text_content = << >>
  /\ created = NotCalled
  /\ validation = NotValidated

\* a processor with either overlap setting and any input
ChunkerInit ==
  /\ processor \in [chunk_size : {MAX_CHUNK_SIZE}, chunk_overlap : OverlapSettings]
  /\ \E n \in 1..MaxPages : \E ls \in [1..n -> LenLists] : text_content = TextContent(ls)
  /\ created = NotCalled
  /\ validation = NotValidated

ChunkerNext == create_chunks

\* ------------------------------------------------------------------------
\* RateLimitStore (middleware/rag_middleware.py): a sliding window per key
\* ------------------------------------------------------------------------
Keys == {"k1", "k2"}                \* f"{rate_limit_key}:{endpoint_path}"
RateLimits == {1, 2}
Windows == {1, 2}                   \* window_seconds
Callers == 1..MaxCallers
default_rate == [limit |-> 2, window |-> 1]

IdleCaller == [pc |-> "idle", key |-> "k1", at |-> 0, seen |-> 0, allowed |-> FALSE,
               remaining |-> 0, retry_after |-> 0]

\* the deque of a key; defaultdict(deque) makes an empty one on first access
deque_of(key) == IF key \in DOMAIN requests THEN requests[key] ELSE << >>

RECURSIVE popleft_old(_, _)
\* while request_times and request_times[0] < window_start: popleft()
popleft_old(request_times, window_start) ==
  IF request_times # << >> /\ Head(request_times) < window_start
  THEN popleft_old(Tail(request_times), window_start)
  ELSE request_times

\* a limit test that lets one request too many through
under_limit_inclusive(current_requests, limit) == current_requests <= limit

\* line 43: allowed = current_requests < limit
under_limit(current_requests, limit) == current_requests < limit

\* a request handler calls is_allowed(key, limit, window_seconds)
is_allowed_call(c, key) ==
  /\ callers[c].pc = "idle"
  /\ callers' = [callers EXCEPT ![c] = [@ EXCEPT !.pc = "waiting", !.key = key]]
  /\ UNCHANGED <<rate, requests, lock, clock, allowed_log,
                 pipeVars, storeVars, regVars, ctxVars, chunkVars>>

\* async with self.lock: the call waits until the lock is free
is_allowed_acquire(c) ==
  /\ callers[c].pc = "waiting"
  /\ ~lock
  /\ lock' = TRUE
  /\ callers' = [callers EXCEPT ![c] = [@ EXCEPT !.pc = "locked"]]
  /\ UNCHANGED <<rate, requests, clock, allowed_log,
                 pipeVars, storeVars, regVars, ctxVars, chunkVars>>

\* lines 33-60 under the lock, and the release of the lock
is_allowed_body(c) ==
  /\ callers[c].pc = "locked"
  /\ LET key == callers[c].key
         now == clock
         window_start == now - rate.window
         request_times == popleft_old(deque_of(key), window_start)
         current_requests == Len(request_times)
         allowed == under_limit(current_requests, rate.limit)
         recorded == IF allowed THEN Append(request_times, now) ELSE request_times
         reset_time == IF recorded # << >> THEN Head(recorded) + rate.window
                       ELSE now + rate.window
         seen == Cardinality({e \in allowed_log : e.key = key /\ e.at >= window_start})
     IN /\ requests' = [k \in DOMAIN requests \cup {key} |->
                          IF k = key THEN recorded ELSE requests[k]]
        /\ callers' = [callers EXCEPT ![c] =
                         [@ EXCEPT !.pc = "done", !.at = now, !.seen = seen,
                                   !.allowed = allowed,
                                   !.remaining = Max(0, rate.limit - current_requests
                                                          - (IF allowed THEN 1 ELSE 0)),
                                   !.retry_after = IF allowed THEN 0
                                                   ELSE Max(0, reset_time - now)]]
        /\ allowed_log' = IF allowed
                          THEN allowed_log \cup {[caller |-> c, key |-> key, at |-> now]}
                          ELSE allowed_log
  /\ lock' = FALSE
  /\ UNCHANGED <<rate, clock, pipeVars, storeVars, regVars, ctxVars, chunkVars>>

\* time.time() moves on
tick ==
  /\ clock < MaxTime
  /\ clock' = clock + 1
  /\ UNCHANGED <<rate, requests, lock, callers, allowed_log,
                 pipeVars, storeVars, regVars, ctxVars, chunkVars>>

\* RateLimitStore.__init__
RateStore ==
  /\ requests = [k \in {} |-> << >>]
  /\ lock = FALSE
  /\ clock = 0
  /\ callers = [c \in Callers |-> IdleCaller]
  /\ allowed_log = {}

RateIdle == rate = default_rate /\ RateStore

RateInit == rate \in [limit : RateLimits, window : Windows] /\ RateStore

RateNext ==
  \/ \E c \in Callers, key \in Keys : is_allowed_call(c, key)
  \/ \E c \in Callers : is_allowed_acquire(c)
  \/ \E c \in Callers : is_allowed_body(c)
  \/ tick

PipeInit ==
  /\ docs = [d \in {} |-> IdleCall]
  /\ chunks = EmptyBag
  /\ blobs = {}
  /\ file_hash_unique = FALSE
  /\ uploads = [c \in UploadIds |-> IdleCall]
  /\ tasks = [d \in {} |-> NewTask]
  /\ deletes = [k \in DeleteIds |-> IdleDelete]

Init == StoreInit /\ PipeInit /\ RegInit /\ CtxInit /\ ChunkerIdle /\ RateIdle

\* the upload calls, racing each other, and the index script
UploadNext ==
  \/ \E c \in UploadIds, u \in Owners, f \in Files, b \in BOOLEAN :
        upload_document_lookup(c, u, f, b)
  \/ \E c \in UploadIds : upload_document_blob(c)
  \/ \E c \in UploadIds : upload_document_insert(c)
  \/ create_rag_document_indexes

SpecUpload == Init /\ [][UploadNext]_vars

\* the life of one document: its upload, its background task, the worker
\* that embeds it, and the delete calls
PipeNext ==
  \/ \E u \in Owners, f \in Files, b \in BOOLEAN :
        upload_document_lookup(FirstUpload, u, f, b)
  \/ upload_document_blob(FirstUpload)
  \/ upload_document_insert(FirstUpload)
  \/ \E d \in DocIds : bg_find(d)
  \/ \E d \in DocIds : bg_start(d)
  \/ \E d \in DocIds : bg_extract_process(d)
  \/ \E d \in DocIds : bg_mark_failed(d)
  \/ \E d \in DocIds : bg_insert_chunk(d)
  \/ \E d \in DocIds : bg_save_ai_metadata(d)
  \/ \E d \in DocIds : bg_complete(d)
  \/ \E d \in DocIds : bg_raise(d)
  \/ \E d \in DocIds : bg_except_find(d)
  \/ \E d \in DocIds : bg_except_fail(d)
  \/ \E d \in DocIds : bg_except_raise(d)
  \/ \E k \in DeleteIds, d \in DocIds, u \in Owners : delete_document_find(k, d, u)
  \/ \E k \in DeleteIds : delete_document_chunks_step(k)
  \/ \E k \in DeleteIds : delete_document_gcs(k)
  \/ \E k \in DeleteIds : delete_document_record(k)
  \/ \E k \in DeleteIds : delete_document_raise(k)
  \/ \E d \in DocIds : process_document_task(d)

Spec == Init /\ [][PipeNext]_vars

\* one step of the background run of document d, whatever its outcome
TaskStep(d) ==
  \/ bg_find(d) \/ bg_start(d) \/ bg_extract_process(d) \/ bg_mark_failed(d)
  \/ bg_insert_chunk(d) \/ bg_save_ai_metadata(d) \/ bg_complete(d) \/ bg_raise(d)
  \/ bg_except_find(d) \/ bg_except_fail(d) \/ bg_except_raise(d)

\* the pipeline with every scheduled background task run to its end: the
\* event loop keeps resuming a task whose awaited call has returned or raised
SpecFair == Init /\ [][PipeNext]_vars /\ \A d \in DocIds : WF_vars(TaskStep(d))

SpecStore == Init /\ [][StoreNext]_vars

SpecRegistry == Init /\ [][RegNext]_vars

SpecContext == Init /\ [][CtxNext]_vars

InitChunker == StoreInit /\ PipeInit /\ RegInit /\ CtxInit /\ ChunkerInit /\ RateIdle

SpecChunker == InitChunker /\ [][ChunkerNext]_vars

SpecValidate == Init /\ [][ValidateNext]_vars

InitRate == StoreInit /\ PipeInit /\ RegInit /\ CtxInit /\ ChunkerIdle /\ RateInit

SpecRate == InitRate /\ [][RateNext]_vars

\* ------------------------------------------------------------------------
\* Claims
\* ------------------------------------------------------------------------
Range(seq) == {seq[k] : k \in DOMAIN seq}

Searches == {"search_similar", "search_similar_chunks"}

C8_RefusedWithoutOwner ==
  (lastOp.op \in {"upsert_points", "search_similar", "delete_points_by_filter"}
     /\ lastOp.noOwner)
    => (lastOp.outcome = "raised" /\ ~lastOp.touched)

\* C9: a vector-store delete removes only points of the owner the call was
\* made for, and only points of the given document when one is given.
C9_DeleteScopedToOwner ==
  lastOp.op \in {"delete_points_by_filter", "delete_document_chunks"} =>
    \A r \in lastOp.removed :
      /\ r.user_id = lastOp.user_id
      /\ lastOp.document_id # NoDocArg => r.document_id = lastOp.document_id

\* ---- claims about upload_document (SpecUpload) ----
Matching(user_id, content) ==
  {d \in DOMAIN docs : /\ docs[d].user_id = user_id
                       /\ docs[d].file_hash = generate_document_hash(content)}

Returned(c) == uploads[c].pc = "done" /\ uploads[c].ret # NoRet

\* C2: when upload_document is called by an owner with bytes that an earlier,
\* already returned call of the same owner registered (and that registration
\* is the only one for the owner and content hash), the call returns the id of
\* that document, and it creates no document, no chunk and no processing task.
C2_SecondUploadReturnsFirst ==
  [][\A c1, c2 \in UploadIds :
       ( /\ uploads[c2].pc = "idle" /\ uploads'[c2].pc # "idle"
         /\ Returned(c1)
         /\ uploads[c1].user_id = uploads'[c2].user_id
         /\ uploads[c1].file.content = uploads'[c2].file.content
         /\ Matching(uploads[c1].user_id, uploads[c1].file.content) = {uploads[c1].ret} )
       => /\ uploads'[c2].pc = "done"
          /\ uploads'[c2].ret = uploads[c1].ret
          /\ docs' = docs /\ chunks' = chunks /\ tasks' = tasks /\ blobs' = blobs]_vars

C2_Witness ==
  \E c1, c2 \in UploadIds :
    /\ c1 # c2 /\ Returned(c1) /\ Returned(c2)
    /\ uploads[c1].outcome = "inserted" /\ uploads[c2].outcome = "existing"
    /\ c1 \notin uploads[c2].overlaps
    /\ uploads[c1].user_id = uploads[c2].user_id
    /\ uploads[c1].file.content = uploads[c2].file.content
    /\ uploads[c2].ret = uploads[c1].ret
    /\ Cardinality(DOMAIN docs) = 1

Overlap(c1, c2) == c1 \in uploads[c2].overlaps \/ c2 \in uploads[c1].overlaps

\* C3: there is at most one document per (owner, content hash), and two
\* overlapping upload_document calls of the same owner with the same bytes both
\* return the same document id.
C3_OneDocumentPerOwnerAndHash ==
  /\ \A d, e \in DOMAIN docs :
       (docs[d].user_id = docs[e].user_id /\ docs[d].file_hash = docs[e].file_hash) => d = e
  /\ \A c1, c2 \in UploadIds :
       ( /\ c1 # c2 /\ Overlap(c1, c2)
         /\ uploads[c1].pc = "done" /\ uploads[c2].pc = "done"
         /\ uploads[c1].user_id = uploads[c2].user_id
         /\ uploads[c1].file.content = uploads[c2].file.content
         /\ validate_document(uploads[c1].file.content, uploads[c1].file.filename).valid
         /\ validate_document(uploads[c2].file.content, uploads[c2].file.filename).valid )
       => (Returned(c1) /\ Returned(c2) /\ uploads[c1].ret = uploads[c2].ret)

\* C4: two upload_document calls by different owners with the same (valid)
\* bytes both succeed and return two distinct documents, each owned by its
\* caller.
C4_SameBytesDifferentOwners ==
  \A c1, c2 \in UploadIds :
    ( /\ uploads[c1].pc = "done" /\ uploads[c2].pc = "done"
      /\ uploads[c1].user_id # uploads[c2].user_id
      /\ uploads[c1].file.content = uploads[c2].file.content
      /\ validate_document(uploads[c1].file.content, uploads[c1].file.filename).valid
      /\ validate_document(uploads[c2].file.content, uploads[c2].file.filename).valid )
    => /\ Returned(c1) /\ Returned(c2)
       /\ uploads[c1].ret # uploads[c2].ret
       /\ docs[uploads[c1].ret].user_id = uploads[c1].user_id
       /\ docs[uploads[c2].ret].user_id = uploads[c2].user_id

\* ---- claims about the RAGDocument status methods (SpecRegistry) ----
\* C5: mark_processing_started with a job token on a document that is
\* PROCESSING under a different token is rejected and leaves status and token
\* as they were.
C5_SecondClaimRejected ==
  ( /\ lastCall.op = "mark_processing_started"
    /\ lastCall.before.status = PROCESSING
    /\ lastCall.before.processing_job_id # NoJob
    /\ lastCall.job_id # NoJob
    /\ lastCall.job_id # lastCall.before.processing_job_id )
  => /\ lastCall.outcome = "rejected"
     /\ docs[lastCall.document_id].status = PROCESSING
     /\ docs[lastCall.document_id].processing_job_id = lastCall.before.processing_job_id

LegalTransitions == {<<PENDING, PROCESSING>>, <<PROCESSING, COMPLETED>>, <<PROCESSING, FAILED>>}
Target(op) ==
  CASE op = "mark_processing_started" -> PROCESSING
    [] op = "mark_processing_completed" -> COMPLETED
    [] op = "mark_processing_failed" -> FAILED

\* C6: a status method called on a document whose status does not allow the
\* transition (anything but PENDING->PROCESSING, PROCESSING->COMPLETED,
\* PROCESSING->FAILED) is rejected and leaves the status unchanged.
C6_IllegalTransitionRejected ==
  ( /\ lastCall.op \in MarkOps
    /\ <<lastCall.before.status, Target(lastCall.op)>> \notin LegalTransitions )
  => /\ lastCall.outcome = "rejected"
     /\ docs[lastCall.document_id].status = lastCall.before.status

\* ---- claims about the ContextManager (SpecContext) ----
\* C7: after every add_message call the estimated tokens of the messages
\* get_context_for_llm returns for a session are at most the session's
\* max_tokens.
C7_BudgetNeverExceeded ==
  \A sid \in DOMAIN contexts :
    SumTokens(get_context_for_llm(sid, TRUE)) <= contexts[sid].max_tokens

\* ---- claims about delete_document (Spec) ----
\* C10: once delete_document has returned success for a document, the store
\* holds no record, no chunk record and no vector entry with that document id,
\* and the count it returned is the number of chunk records the document had
\* when the chunks were deleted.
C10_DeleteCascades ==
  \A k \in DeleteIds :
    (deletes[k].pc = "done" /\ deletes[k].success) =>
      /\ deletes[k].document_id \notin DOMAIN docs
      /\ \A ch \in BagToSet(chunks) : ch.document_id # deletes[k].document_id
      /\ \A id \in DOMAIN points : points[id].document_id # deletes[k].document_id
      /\ deletes[k].deleted_chunks = deletes[k].had

\* ---- claims about the background run (Spec) ----
Deleted(d) ==
  \E k \in DeleteIds : /\ deletes[k].pc = "done" /\ deletes[k].success
                       /\ deletes[k].document_id = d

RecordsOf(bag, d) == BagCount(bag, {ch \in BagToSet(bag) : ch.document_id = d})

\* C11: once delete_document has deleted a document, its background run writes
\* nothing more for it: no chunk record of the document is inserted and no
\* save brings the document record back.
C11_NoWritesAfterDelete ==
  [][\A d \in DocIds :
       Deleted(d) => /\ RecordsOf(chunks', d) <= RecordsOf(chunks, d)
                     /\ d \notin DOMAIN docs => d \notin DOMAIN docs']_vars

\* C12: a document whose status is FAILED has no chunk records.
C12_FailedHasNoChunks ==
  \A d \in DOMAIN docs : docs[d].status = FAILED => RecordsOf(chunks, d) = 0

BeingDeleted(d) ==
  \E k \in DeleteIds :
    /\ deletes[k].document_id = d
    /\ deletes[k].pc \in {"gcs", "doc"} \/ (deletes[k].pc = "done" /\ deletes[k].success)

\* C13: a document that is COMPLETED and that no delete_document call has
\* begun to remove has chunks_count equal to the number of its chunk records,
\* which is the number of chunks the chunker emitted, and embeddings_created
\* is true.
C13_CompletedCounts ==
  \A d \in DOMAIN docs :
    (docs[d].status = COMPLETED /\ ~BeingDeleted(d)) =>
      /\ docs[d].chunks_count = RecordsOf(chunks, d)
      /\ docs[d].chunks_count = tasks[d].result.chunks
      /\ docs[d].embeddings_created

\* no delete_document call has found the document
Untouched(d) ==
  \A k \in DeleteIds : deletes[k].document_id # d \/ deletes[k].error = "Document not found"

IndicesOf(d) == {ch.chunk_index : ch \in {c \in BagToSet(chunks) : c.document_id = d}}

C15_EmbeddedBeforeCompleted ==
  \A d \in DOMAIN docs :
    (docs[d].status = COMPLETED /\ docs[d].embeddings_created) =>
      /\ \A i \in 0..(tasks[d].result.chunks - 1) : PointId(d, i) \in DOMAIN points
      /\ \A ch \in BagToSet(chunks) :
           ch.document_id = d => ch.qdrant_point_id = PointId(d, ch.chunk_index)

Terminal == {COMPLETED, FAILED}

\* C16: a document whose status is COMPLETED or FAILED keeps that status in
\* every later step of the pipeline for as long as its record exists.
C16_TerminalIsFinal ==
  [][\A d \in DOMAIN docs \cap DOMAIN docs' :
       docs[d].status \in Terminal => docs'[d].status = docs[d].status]_vars

\* a terminal document that later steps (a delete_document call that found it
\* FAILED and then failed itself) have left as it was
C16_Witness ==
  \E d \in DOMAIN docs, k \in DeleteIds :
    /\ docs[d].status = FAILED /\ tasks[d].pc = "done"
    /\ deletes[k].document_id = d /\ deletes[k].document.status = FAILED
    /\ deletes[k].pc = "done" /\ ~deletes[k].success

\* C17: chunks_count and embeddings_created of a document change only in a
\* step that takes it from PROCESSING to COMPLETED (mark_processing_started and
\* mark_processing_failed leave them alone), and a document that is not
\* COMPLETED has chunks_count = 0 and embeddings_created = false.
C17_CountsChangeOnlyOnCompletion ==
  [][/\ \A d \in DOMAIN docs \cap DOMAIN docs' :
          ( \/ docs'[d].chunks_count # docs[d].chunks_count
            \/ docs'[d].embeddings_created # docs[d].embeddings_created )
          => (docs[d].status = PROCESSING /\ docs'[d].status = COMPLETED)
     /\ \A d \in DOMAIN docs' :
          docs'[d].status # COMPLETED =>
            (docs'[d].chunks_count = 0 /\ ~docs'[d].embeddings_created)]_vars

\* a document that failed after chunk records had been inserted for it
C17_Witness ==
  \E d \in DOMAIN docs :
    /\ docs[d].status = FAILED /\ docs[d].processing_job_id # NoJob
    /\ RecordsOf(chunks, d) > 0
    /\ docs[d].chunks_count = 0 /\ ~docs[d].embeddings_created

\* C18: every document for which upload_document scheduled a background run
\* eventually is COMPLETED or FAILED, or is deleted.
C18_EventuallyTerminal ==
  \A d \in DocIds :
    (d \in DOMAIN tasks) ~> (d \notin DOMAIN docs \/ docs[d].status \in Terminal)

\* C19: for a FAILED document get_document_status, asked by the owner,
\* reports status FAILED and the error text the failing transition recorded.
C19_StatusReportsError ==
  \A d \in DOMAIN docs :
    docs[d].status = FAILED =>
      LET report == get_document_status(d, docs[d].user_id)
      IN /\ report.found /\ report.status = FAILED
         /\ report.processing_error # NotSet
         /\ report.processing_error \in Range(docs[d].errors)

\* the sentences of the page entries, in input order
RECURSIVE AllSentences(_, _)
AllSentences(pages, e) ==
  IF e > Len(pages) THEN << >> ELSE pages[e].sentences \o AllSentences(pages, e + 1)

\* the chunks read in order, the overlap sentences at each chunk's start skipped
RECURSIVE ReadSkippingOverlap(_, _)
ReadSkippingOverlap(out, c) ==
  IF c > Len(out) THEN << >>
  ELSE SubSeq(out[c].sentences, out[c].carried + 1, Len(out[c].sentences))
         \o ReadSkippingOverlap(out, c + 1)

\* what a chunk begins with is what the chunk before it ended with
CarriedIsOverlap(out) ==
  \A c \in 1..Len(out) :
    out[c].carried > 0 =>
      /\ c > 1
      /\ out[c].carried <= Len(out[c - 1].sentences)
      /\ SubSeq(out[c].sentences, 1, out[c].carried)
           = LastOf(out[c - 1].sentences, out[c].carried)

\* C20: create_chunks loses no sentence and keeps the order: every sentence of
\* the input is in at least one chunk, and the chunks read in order without
\* the overlap sentences at their starts are the input's sentences in their
\* original order, page after page.
C20_NoSentenceLost ==
  created # NotCalled =>
    /\ \A s \in Range(AllSentences(text_content, 1)) :
         \E c \in 1..Len(created) : s \in Range(created[c].sentences)
    /\ ReadSkippingOverlap(created, 1) = AllSentences(text_content, 1)
    /\ CarriedIsOverlap(created)

\* two pages chunked, one chunk opening with two overlap sentences
C20_Witness ==
  /\ created # NotCalled
  /\ Len(created) >= 3
  /\ \E c \in 1..Len(created) : created[c].carried = overlap_count
  /\ \E c, d \in 1..Len(created) : created[c].page # created[d].page

\* the sentences two chunks have in common
Shared(a, b) == Range(a.sentences) \cap Range(b.sentences)

\* C21: every chunk but the first shares at least one sentence with the chunk
\* right before it when chunk_overlap > 0, and none when chunk_overlap = 0,
\* whether the input has one page or several.
C21_ConsecutiveChunksOverlap ==
  created # NotCalled =>
    \A c \in 2..Len(created) :
      IF processor.chunk_overlap > 0
      THEN Shared(created[c], created[c - 1]) # {}
      ELSE Shared(created[c], created[c - 1]) = {}

\* C22: when no sentence of the input is longer than chunk_size, every chunk
\* has at most chunk_size + chunk_overlap characters.
C22_ChunkLengthBounded ==
  (/\ created # NotCalled
   /\ \A s \in Range(AllSentences(text_content, 1)) : s.len <= processor.chunk_size) =>
    \A c \in 1..Len(created) :
      created[c].char_count <= processor.chunk_size + processor.chunk_overlap

\* ---- claims about validate_document (SpecValidate) ----
\* the file is acceptable: non-empty, at most 50 MB, a non-blank filename
\* with an extension of the allow-list
Acceptable(content, filename) ==
  /\ Size(content) > 0
  /\ Size(content) <= 50 * 1024 * 1024
  /\ filename # NoFilename
  /\ ~(filename.stem \in {"", " "} /\ filename.ext = "")
  /\ lower(filename.ext) \in {".pdf", ".doc", ".docx", ".txt", ".md"}

\* C23: validate_document never raises, whatever the content and filename
\* (a missing filename included); it returns valid = true exactly when the
\* file is acceptable, and valid = false with a non-empty error list otherwise.
C23_ValidateNeverRaises ==
  validation.called =>
    /\ ~validation.result.raised
    /\ validation.result.valid <=> Acceptable(validation.content, validation.filename)
    /\ ~validation.result.valid => validation.result.errors # << >>

\* ---- claims about search (SpecStore) ----
\* the limit a search works with
TopK(call) == IF call.limit # NoLimit THEN call.limit ELSE SEARCH_TOP_K

\* the owner's points (of the listed documents, if any are listed) whose
\* score reaches the threshold of the call
Reaching(call) ==
  {id \in DOMAIN points :
     /\ points[id].user_id = call.user_id
     /\ Len(call.document_ids) > 0 => points[id].document_id \in Range(call.document_ids)
     /\ Score(call.q, points[id].vector) >= call.threshold}

\* C24: a search with score threshold t and limit K returns only matches
\* scoring at least t and at most K of them; when fewer than K of the owner's
\* matches reach t it returns fewer than K, possibly none, and does not raise.
C24_ThresholdAndLimit ==
  (lastOp.op \in Searches /\ lastOp.threshold # NoThreshold) =>
    /\ \A id \in lastOp.result : Score(lastOp.q, points[id].vector) >= lastOp.threshold
    /\ Cardinality(lastOp.result) <= TopK(lastOp)
    /\ Cardinality(Reaching(lastOp)) < TopK(lastOp) =>
         /\ lastOp.outcome = "ok"
         /\ Cardinality(lastOp.result) < TopK(lastOp)

\* ---- claims about compression (SpecContext) ----
\* the session as add_message finds it
Found(sid) == IF sid \in DOMAIN contexts THEN contexts[sid] ELSE create_context(NoPrompt)

\* the step is an add_message call on session sid
Adding(sid) == adds' = adds + 1 /\ sid \in DOMAIN contexts'

\* the message the step adds
NewMessage(sid) == contexts'[sid].messages[Len(contexts'[sid].messages)]

\* the call has to compress: the new message does not fit the budget
Compressing(sid) ==
  Found(sid).total_tokens + _estimate_tokens(NewMessage(sid).len) > Found(sid).max_tokens

\* the system message and the six most recent messages fit the target
ProtectedFit(sid) ==
  LET msgs == Found(sid).messages
  IN _estimate_tokens(msgs[1].len) + SumTokens(LastOf(msgs, 6))
       <= Found(sid).max_tokens - _estimate_tokens(NewMessage(sid).len) - 1000

\* C25: when add_message has to compress and the system message plus the six
\* most recent messages fit the target, the new list is the system message,
\* one summary message if and only if messages were elided, the six most
\* recent earlier messages in their order, and the added message.
C25_CompressedShape ==
  [][\A sid \in Sessions :
       (Adding(sid) /\ Compressing(sid) /\ ProtectedFit(sid)) =>
         LET msgs == Found(sid).messages
             elided == Len(msgs) > 7
             after == contexts'[sid].messages
             kept == SubSeq(after, IF elided THEN 3 ELSE 2, Len(after) - 1)
         IN /\ after[1] = msgs[1]
            /\ msgs[1].kind = "prompt"
            /\ elided => after[2].kind = "summary" /\ after[2].role = SYSTEM
            /\ Len(kept) = 6
            /\ kept = SubSeq(msgs, Len(msgs) - 5, Len(msgs))
            /\ after[Len(after)].kind = "added" /\ after[Len(after)].n = adds'
            /\ Len(after) = (IF elided THEN 9 ELSE 8)]_vars

\* a session just compressed around a summary: prompt, summary, six earlier
\* messages and the one just added
C25_Witness ==
  \E sid \in DOMAIN contexts :
    LET msgs == contexts[sid].messages
    IN /\ Len(msgs) = 9
       /\ msgs[1].kind = "prompt"
       /\ msgs[2].kind = "summary"
       /\ msgs[9].n = adds
       /\ \A k \in 3..9 : msgs[k].kind = "added"

\* C26: get_context_for_llm returns the session's messages in their stored
\* order; with include_system = false it returns the same list without the
\* system prompt message and with every other message, a compression summary
\* included.
C26_ContextForModel ==
  \A sid \in DOMAIN contexts :
    /\ get_context_for_llm(sid, TRUE) = contexts[sid].messages
    /\ get_context_for_llm(sid, FALSE)
         = SelectSeq(contexts[sid].messages, LAMBDA m : m.kind # "prompt")

\* ---- claims about the rate limiter (SpecRate) ----
\* the requests allowed for key at the times from to from + window
AllowedIn(log, key, from) ==
  {e \in log : e.key = key /\ e.at >= from /\ e.at <= from + rate.window}

\* the step is the body of caller c's is_allowed call
Decides(c) == callers[c].pc = "locked" /\ callers'[c].pc = "done"

\* C27: however concurrent is_allowed calls interleave, the requests allowed
\* for one key within one window never exceed the limit; a request is allowed
\* exactly when fewer than limit requests were allowed for its key in the
\* window before it, a denied request is not recorded, and a call leaves the
\* other keys alone.
C27_RateLimitHolds ==
  [][/\ \A key \in Keys : \A from \in 0..MaxTime :
          Cardinality(AllowedIn(allowed_log', key, from)) <= rate.limit
     /\ \A c \in Callers :
          Decides(c) =>
            /\ callers'[c].allowed <=> callers'[c].seen < rate.limit
            /\ ~callers'[c].allowed =>
                 /\ callers[c].key \in DOMAIN requests
                 /\ Range(requests'[callers[c].key]) \subseteq Range(requests[callers[c].key])
                 /\ Len(requests'[callers[c].key]) <= Len(requests[callers[c].key])
            /\ callers'[c].allowed =>
                 Len(requests'[callers[c].key]) = callers'[c].seen + 1
            /\ \A k \in Keys \ {callers[c].key} :
                 /\ k \in DOMAIN requests <=> k \in DOMAIN requests'
                 /\ k \in DOMAIN requests => requests'[k] = requests[k]]_vars

\* with limit 1, two calls for one key in one window, the first allowed and
\* the second denied, and a call for another key allowed meanwhile
C27_Witness ==
  \E c1, c2, c3 \in Callers :
    /\ callers[c1].pc = "done" /\ callers[c2].pc = "done" /\ callers[c3].pc = "done"
    /\ callers[c1].key = callers[c2].key /\ callers[c3].key # callers[c1].key
    /\ callers[c1].allowed /\ ~callers[c2].allowed /\ callers[c3].allowed
    /\ callers[c2].at - callers[c1].at <= rate.window
    /\ callers[c3].at >= callers[c1].at

\* C28: after create_session and after every add_message call, compressing
\* or not, the session's total_tokens is the sum of the token estimates of
\* the messages the session holds.
C28_TotalIsSum ==
  \A sid \in DOMAIN contexts :
    contexts[sid].total_tokens = SumTokens(contexts[sid].messages)

\* a session whose last add_message had to compress: earlier messages are
\* gone, some are kept, the added message is last and the total exceeds the
\* budget
C28_Witness ==
  \E sid \in DOMAIN contexts :
    LET msgs == contexts[sid].messages
    IN /\ adds > 2
       /\ Len(msgs) < adds + 1
       /\ msgs[Len(msgs)].n = adds
       /\ \E k \in DOMAIN msgs : msgs[k].kind = "added" /\ msgs[k].n < adds
       /\ contexts[sid].total_tokens > contexts[sid].max_tokens

\* C29: after any sequence of add_message calls the session's list starts
\* with the session's system prompt message and holds it exactly once.
C29_PromptExactlyOnce ==
  \A sid \in DOMAIN contexts :
    LET msgs == contexts[sid].messages
    IN /\ Len(msgs) > 0
       /\ msgs[1].kind = "prompt"
       /\ Cardinality({k \in DOMAIN msgs : msgs[k].kind = "prompt"}) = 1

\* ---- claims about delete_document by another owner (Spec) ----
\* the step starts delete call k for a document that is registered to an
\* owner other than the caller
ForeignDelete(k) ==
  /\ deletes[k].pc = "idle"
  /\ deletes'[k].pc # "idle"
  /\ deletes'[k].document_id \in DOMAIN docs
  /\ docs[deletes'[k].document_id].user_id # deletes'[k].user_id

====
